---- MODULE Spec2Model ----
(***************************************************************************)
(* The proposal query engine of plugin-icp-nns: the enum registries Topic  *)
(* and ProposalStatus, the `!proposals` command parser, the governance     *)
(* client (list_proposals / get_proposal_info) and governanceProvider.get. *)
(*                                                                         *)
(* JavaScript strings are sequences of one-character strings, so that      *)
(* parseInt, toString and the command regular expression are computed.     *)
(* JavaScript values whose type varies at run time are records             *)
(* [t, v, s]: t the type tag, v the numeric value, s the string value.     *)
(***************************************************************************)
EXTENDS Integers, Sequences, FiniteSets, TLC

(***************************************************************************)
(* JavaScript values                                                       *)
(***************************************************************************)
Num(n) == [t |-> "number", v |-> n, s |-> << >>]

Str(x) == [t |-> "string", v |-> 0, s |-> x]

BigInt(n) == [t |-> "bigint", v |-> n, s |-> << >>]

NaN == [t |-> "NaN", v |-> 0, s |-> << >>]

Undefined == [t |-> "undefined", v |-> 0, s |-> << >>]

\* a !== b on numbers, NaN and undefined (NaN is unequal to everything)
StrictNotEqual(a, b) == \/ a.t = "NaN"
                        \/ b.t = "NaN"
                        \/ a # b

isNaN(a) == a.t = "NaN"

\* ToBoolean of a string or undefined value: '' and undefined are falsy
Truthy(a) == CASE a.t = "string" -> a.s # << >>
               [] a.t = "number" -> a.v # 0
               [] a.t = "bigint" -> a.v # 0
               [] OTHER -> FALSE

(***************************************************************************)
(* Characters                                                              *)
(***************************************************************************)
DigitChars == <<"0","1","2","3","4","5","6","7","8","9">>

UpperChars == <<"A","B","C","D","E","F","G","H","I","J","K","L","M",
                "N","O","P","Q","R","S","T","U","V","W","X","Y","Z">>

LowerChars == <<"a","b","c","d","e","f","g","h","i","j","k","l","m",
                "n","o","p","q","r","s","t","u","v","w","x","y","z">>

IsDigit(c) == \E d \in 1..10 : DigitChars[d] = c

DigitValue(c) == (CHOOSE d \in 1..10 : DigitChars[d] = c) - 1

\* A character is a string of length one.  A character that a string of
\* this module cannot hold (vertical tab and everything above U+007F) is
\* written as the name of its code point, e.g. "U+00A0".

\* the Unicode space separators (category Zs) other than the space itself
SpaceSeparators ==
    { "U+00A0", "U+1680", "U+2000", "U+2001", "U+2002", "U+2003", "U+2004",
      "U+2005", "U+2006", "U+2007", "U+2008", "U+2009", "U+200A", "U+202F",
      "U+205F", "U+3000" }

\* \s of the regular expression: the white space and the line terminators
\* of ECMAScript
IsSpace(c) ==
    \/ c \in {" ", "\t", "\n", "\r", "\f", "U+000B", "U+FEFF", "U+2028", "U+2029"}
    \/ c \in SpaceSeparators

\* case folding of the /i flag on ASCII letters
Lower(c) == IF \E k \in 1..26 : UpperChars[k] = c
            THEN LowerChars[CHOOSE k \in 1..26 : UpperChars[k] = c]
            ELSE c

(***************************************************************************)
(* Number.prototype.toString / BigInt.prototype.toString (radix 10)        *)
(***************************************************************************)
RECURSIVE NatToString(_)
NatToString(n) == IF n < 10 THEN << DigitChars[n + 1] >>
                  ELSE NatToString(n \div 10) \o << DigitChars[(n % 10) + 1] >>

toString(n) == IF n < 0 THEN <<"-">> \o NatToString(0 - n) ELSE NatToString(n)

(***************************************************************************)
(* parseInt(string, 10) and parseInt(string): leading white space is       *)
(* skipped, an optional sign is read, then the longest prefix of digits;   *)
(* NaN when there is no digit.                                             *)
(***************************************************************************)
RECURSIVE SpaceRun(_, _)
SpaceRun(s, p) == IF p <= Len(s) /\ IsSpace(s[p]) THEN 1 + SpaceRun(s, p + 1) ELSE 0

RECURSIVE DigitRun(_, _)
DigitRun(s, p) == IF p <= Len(s) /\ IsDigit(s[p]) THEN 1 + DigitRun(s, p + 1) ELSE 0

RECURSIVE DigitsValue(_)
DigitsValue(ds) == IF ds = << >> THEN 0
                   ELSE 10 * DigitsValue(SubSeq(ds, 1, Len(ds) - 1)) + DigitValue(ds[Len(ds)])

parseInt(s) ==
    LET p0 == 1 + SpaceRun(s, 1)
        neg == p0 <= Len(s) /\ s[p0] = "-"
        p1 == IF p0 <= Len(s) /\ s[p0] \in {"-", "+"} THEN p0 + 1 ELSE p0
        d == DigitRun(s, p1)
        n == DigitsValue(SubSeq(s, p1, p1 + d - 1))
    IN IF d = 0 THEN NaN
       ELSE Num(IF neg THEN 0 - n ELSE n)

(***************************************************************************)
(* Objects: own properties in the order Object.entries enumerates them:    *)
(* integer keys in ascending order, then the other keys in insertion order *)
(***************************************************************************)
Entry(k, val) == [key |-> k, value |-> val]

IsIndexKey(k) == /\ k # << >>
                 /\ \A j \in 1..Len(k) : IsDigit(k[j])
                 /\ (Len(k) > 1 => k[1] # "0")

HasKey(obj, k) == \E j \in 1..Len(obj) : obj[j].key = k

\* position at which a new integer key is inserted
IndexSlot(obj, k) ==
    Cardinality({j \in 1..Len(obj) : IsIndexKey(obj[j].key)
                                     /\ DigitsValue(obj[j].key) < DigitsValue(k)})

\* obj[k] = val
SetProperty(obj, k, val) ==
    IF HasKey(obj, k)
    THEN [j \in 1..Len(obj) |-> IF obj[j].key = k THEN Entry(k, val) ELSE obj[j]]
    ELSE IF IsIndexKey(k)
         THEN LET n == IndexSlot(obj, k)
              IN SubSeq(obj, 1, n) \o << Entry(k, val) >> \o SubSeq(obj, n + 1, Len(obj))
         ELSE Append(obj, Entry(k, val))

\* obj[k]
GetProperty(obj, k) ==
    IF HasKey(obj, k) THEN obj[CHOOSE j \in 1..Len(obj) : obj[j].key = k].value
    ELSE Undefined

\* String(value) as a property key
ToPropertyKey(val) == IF val.t = "number" THEN toString(val.v) ELSE val.s

(***************************************************************************)
(* src/topic.ts and src/status.ts                                          *)
(***************************************************************************)
TopicLiteral == <<
    Entry(<<"U","n","s","p","e","c","i","f","i","e","d">>, Num(0)),
    Entry(<<"N","e","u","r","o","n","M","a","n","a","g","e","m","e","n","t">>, Num(1)),
    Entry(<<"E","x","c","h","a","n","g","e","R","a","t","e">>, Num(2)),
    Entry(<<"N","e","t","w","o","r","k","E","c","o","n","o","m","i","c","s">>, Num(3)),
    Entry(<<"G","o","v","e","r","n","a","n","c","e">>, Num(4)),
    Entry(<<"N","o","d","e","A","d","m","i","n">>, Num(5)),
    Entry(<<"P","a","r","t","i","c","i","p","a","n","t","M","a","n","a","g","e","m","e","n","t">>, Num(6)),
    Entry(<<"S","u","b","n","e","t","M","a","n","a","g","e","m","e","n","t">>, Num(7)),
    Entry(<<"N","e","t","w","o","r","k","C","a","n","i","s","t","e","r","M","a","n","a","g","e","m","e","n","t">>, Num(8)),
    Entry(<<"K","y","c">>, Num(9)),
    Entry(<<"N","o","d","e","P","r","o","v","i","d","e","r","R","e","w","a","r","d","s">>, Num(10)),
    Entry(<<"I","c","O","s","V","e","r","s","i","o","n","D","e","p","l","o","y","m","e","n","t">>, Num(12)),
    Entry(<<"I","c","O","s","V","e","r","s","i","o","n","E","l","e","c","t","i","o","n">>, Num(13)),
    Entry(<<"S","n","s","A","n","d","C","o","m","m","u","n","i","t","y","F","u","n","d">>, Num(14)),
    Entry(<<"A","p","i","B","o","u","n","d","a","r","y","N","o","d","e","M","a","n","a","g","e","m","e","n","t">>, Num(15)),
    Entry(<<"S","u","b","n","e","t","R","e","n","t","a","l">>, Num(16)),
    Entry(<<"P","r","o","t","o","c","o","l","C","a","n","i","s","t","e","r","M","a","n","a","g","e","m","e","n","t">>, Num(17)),
    Entry(<<"S","e","r","v","i","c","e","N","e","r","v","o","u","s","S","y","s","t","e","m","M","a","n","a","g","e","m","e","n","t">>, Num(18)) >>

ProposalStatusLiteral == <<
    Entry(<<"U","n","s","p","e","c","i","f","i","e","d">>, Num(0)),
    Entry(<<"O","p","e","n">>, Num(1)),
    Entry(<<"R","e","j","e","c","t","e","d">>, Num(2)),
    Entry(<<"A","d","o","p","t","e","d">>, Num(3)),
    Entry(<<"E","x","e","c","u","t","e","d">>, Num(4)),
    Entry(<<"F","a","i","l","e","d">>, Num(5)) >>

\* Object.entries(X).forEach(([name, value]) => { X[value] = name; })
RECURSIVE AddReverse(_, _, _)
AddReverse(obj, entries, j) ==
    IF j > Len(entries) THEN obj
    ELSE AddReverse(SetProperty(obj, ToPropertyKey(entries[j].value), Str(entries[j].key)),
                    entries, j + 1)

\* a reverse mapping that writes the forward entries again
AddForwardAgain(obj) == obj

AddReverseMapping(obj) == AddReverse(obj, obj, 1)

(***************************************************************************)
(* The command regular expression of governanceProvider.get                *)
(*   /^!proposals(?:\s+(\d+))?(?:\s+topic\s+(\d+))?(?:\s+status\s+(\d+))?$/i *)
(* Every optional group starts with \s+ followed by a different kind of    *)
(* character, and \d+ and \s+ are greedy and followed by a character of    *)
(* another class, so matching never needs to backtrack.                    *)
(***************************************************************************)
LitProposals == <<"!","p","r","o","p","o","s","a","l","s">>

LitTopic == <<"t","o","p","i","c">>

LitStatus == <<"s","t","a","t","u","s">>

\* the literal lit at position p of s, letters compared case-insensitively
MatchesLiteral(s, p, lit) ==
    /\ p + Len(lit) - 1 <= Len(s)
    /\ \A j \in 1..Len(lit) : Lower(s[p + j - 1]) = Lower(lit[j])

NoGroup(p) == [ok |-> FALSE, next |-> p, cap |-> Undefined]

\* (?:\s+(\d+))? at position p
LimitGroup(s, p) ==
    LET w == SpaceRun(s, p)
        d == DigitRun(s, p + w)
    IN IF w >= 1 /\ d >= 1
       THEN [ok |-> TRUE, next |-> p + w + d, cap |-> Str(SubSeq(s, p + w, p + w + d - 1))]
       ELSE NoGroup(p)

\* (?:\s+kw\s+(\d+))? at position p
KeywordGroup(s, p, kw) ==
    LET w1 == SpaceRun(s, p)
        q == p + w1 + Len(kw)
        w2 == SpaceRun(s, q)
        d == DigitRun(s, q + w2)
    IN IF w1 >= 1 /\ MatchesLiteral(s, p + w1, kw) /\ w2 >= 1 /\ d >= 1
       THEN [ok |-> TRUE, next |-> q + w2 + d, cap |-> Str(SubSeq(s, q + w2, q + w2 + d - 1))]
       ELSE NoGroup(p)

NoMatch == [matched |-> FALSE, g1 |-> Undefined, g2 |-> Undefined, g3 |-> Undefined]

\* the expression without its closing $: a prefix of the text may match
RegexMatchNoEnd(s) ==
    IF ~MatchesLiteral(s, 1, LitProposals) THEN NoMatch
    ELSE LET a == LimitGroup(s, 1 + Len(LitProposals))
             b == KeywordGroup(s, a.next, LitTopic)
             c == KeywordGroup(s, b.next, LitStatus)
         IN [matched |-> TRUE, g1 |-> a.cap, g2 |-> b.cap, g3 |-> c.cap]

\* text.match(regex): null, or the array of the three capture groups
RegexMatch(s) ==
    IF ~MatchesLiteral(s, 1, LitProposals) THEN NoMatch
    ELSE LET a == LimitGroup(s, 1 + Len(LitProposals))
             b == KeywordGroup(s, a.next, LitTopic)
             c == KeywordGroup(s, b.next, LitStatus)
         IN IF c.next = Len(s) + 1
            THEN [matched |-> TRUE, g1 |-> a.cap, g2 |-> b.cap, g3 |-> c.cap]
            ELSE NoMatch

DefaultLimit == 10

\* a limit parser that takes a zero limit for a missing one
ParseLimitFalsyZero(m) ==
    IF m.matched /\ Truthy(m.g1) /\ parseInt(m.g1.s).v # 0 THEN parseInt(m.g1.s)
    ELSE Num(DefaultLimit)

\* const limit = match && match[1] ? parseInt(match[1], 10) : 10
ParseLimit(m) == IF m.matched /\ Truthy(m.g1) THEN parseInt(m.g1.s) ELSE Num(DefaultLimit)

\* const topicFilter = match && match[2] ? parseInt(match[2], 10) : undefined
ParseTopicFilter(m) == IF m.matched /\ Truthy(m.g2) THEN parseInt(m.g2.s) ELSE Undefined

\* const statusFilter = match && match[3] ? parseInt(match[3], 10) : undefined
ParseStatusFilter(m) == IF m.matched /\ Truthy(m.g3) THEN parseInt(m.g3.s) ELSE Undefined

(***************************************************************************)
(* The governance ledger (remote collaborator).  A ProposalInfo is what    *)
(* list_proposals and get_proposal_info return; opt fields are sequences   *)
(* of length 0 or 1, as in the candid binding.                             *)
(***************************************************************************)
ProposalInfo(n, tp, st, ttl, sum, ts) ==
    [id |-> << [id |-> n] >>,
     proposal |-> << [title |-> ttl, summary |-> sum] >>,
     topic |-> tp,
     status |-> st,
     proposal_timestamp_seconds |-> ts]

MaxLedger == 3

\* the proposals a ledger snapshot is drawn from
ProposalPool ==
    { ProposalInfo(12, 17, 4, << >>, << >>, 1700000400),
      ProposalInfo(11, 13, 1, << <<"u","p">> >>, <<"s","u","m">>, 1700000300),
      ProposalInfo(10, 13, 4, << <<"a">> >>, <<"x">>, 1700000200),
      ProposalInfo(9, 0, 0, << <<"b">> >>, << >>, 1700000100) }

IdOf(p) == p.id[1].id

\* the proposals of S, newest (largest id) first
RECURSIVE NewestFirst(_)
NewestFirst(S) ==
    IF S = {} THEN << >>
    ELSE LET p == CHOOSE x \in S : \A y \in S : IdOf(y) <= IdOf(x)
         IN << p >> \o NewestFirst(S \ {p})

Snapshots == { NewestFirst(S) : S \in { T \in SUBSET ProposalPool : Cardinality(T) <= MaxLedger } }

Range(f) == { f[j] : j \in DOMAIN f }

Take(s, n) == SubSeq(s, 1, IF n < Len(s) THEN n ELSE Len(s))

\* every arrangement of distinct elements of S
RECURSIVE Arrangements(_)
Arrangements(S) ==
    { << >> } \cup UNION { { << x >> \o r : r \in Arrangements(S \ {x}) } : x \in S }

\* the proposals of the snapshot the request's filter fields select
LedgerSelect(snapshot, request) ==
    LET Keep(p) == /\ p.topic \notin Range(request.exclude_topic)
                   /\ \/ request.include_status = << >>
                      \/ p.status \in Range(request.include_status)
    IN SelectSeq(snapshot, Keep)

\* list_proposals of a ledger that honours the request: the newest `limit`
\* selected proposals; what a zero limit returns is the ledger's choice
HonestListResponses(snapshot, request) ==
    LET sel == LedgerSelect(snapshot, request)
    IN IF request.limit = 0
       THEN { Take(sel, n) : n \in 0..Len(sel) }
       ELSE { Take(sel, request.limit) }

\* list_proposals: any proposals of the snapshot, in any order, when the
\* ledger does not honour the request's fields
ListResponses(snapshot, honest, request) ==
    IF honest THEN HonestListResponses(snapshot, request)
    ELSE Arrangements(Range(snapshot))

\* get_proposal_info(id): zero records, or the snapshot's record of id
DetailResponses(snapshot, n) ==
    { << >> } \cup { << p >> : p \in { x \in Range(snapshot) : IdOf(x) = n } }

(***************************************************************************)
(* Command texts                                                           *)
(***************************************************************************)
Sp == <<" ">>

\* the text of a command: l, t and s are the optional numbers of the
\* limit, topic and status fields (a sequence of length 0 or 1)
Command(kw, l, t, s) ==
    kw \o (IF l = << >> THEN << >> ELSE Sp \o toString(l[1]))
       \o (IF t = << >> THEN << >> ELSE Sp \o LitTopic \o Sp \o toString(t[1]))
       \o (IF s = << >> THEN << >> ELSE Sp \o LitStatus \o Sp \o toString(s[1]))

LimitFields == { << >>, <<0>>, <<1>>, <<2>> }

TopicFields == { << >>, <<13>>, <<0>> }

StatusFields == { << >>, <<1>>, <<4>> }

GrammarCase(txt, l, t, s) == [text |-> txt, limit |-> l, topic |-> t, status |-> s]

\* commands of the grammar, single spaces, lower-case keywords
PlainCases ==
    { GrammarCase(Command(LitProposals, l, t, s), l, t, s) :
        l \in LimitFields, t \in TopicFields, s \in StatusFields }

\* commands of the grammar with other letter case, white space and leading zeros
VariantCases ==
    { GrammarCase(<<"!","P","R","O","P","O","S","A","L","S"," ","\t","2"," ","T","o","p","i","c"," "," ","0","1","3">>,
                  <<2>>, <<13>>, << >>),
      GrammarCase(<<"!","P","r","o","p","o","s","a","l","s"," ","0","1"," ","S","T","A","T","U","S"," ","0","4">>,
                  <<1>>, << >>, <<4>>),
      GrammarCase(<<"!","p","r","o","p","o","s","a","l","s","\t","2"," ","t","o","p","i","c"," ","1","7","\t","s","t","a","t","u","s"," ","1">>,
                  <<2>>, <<17>>, <<1>>),
      GrammarCase(<<"!","p","r","o","p","o","s","a","l","s"," ","2"," ","s","t","a","t","u","s"," ","0">>,
                  <<2>>, << >>, <<0>>),
      GrammarCase(<<"!","p","r","o","p","o","s","a","l","s"," ","1"," ","t","o","p","i","c"," ","0"," ","s","t","a","t","u","s"," ","0">>,
                  <<1>>, <<0>>, <<0>>),
      GrammarCase(<<"!","p","r","o","p","o","s","a","l","s"," ","2"," ","t","o","p","i","c"," ","1","1">>,
                  <<2>>, <<11>>, << >>),
      GrammarCase(<<"!","p","r","o","p","o","s","a","l","s","\r","2"," ","t","o","p","i","c","\r","\n","1","3">>,
                  <<2>>, <<13>>, << >>),
      GrammarCase(<<"!","p","r","o","p","o","s","a","l","s","\f","2","U+00A0","s","t","a","t","u","s","U+000B","U+2028","4">>,
                  <<2>>, << >>, <<4>>) }

GrammarCases == PlainCases \cup VariantCases

\* texts the regular expression does not match
UnmatchedTexts ==
    { <<"!","p","r","o","p","o","s","a","l","s"," ","2"," ","s","t","a","t","u","s"," ","1"," ","t","o","p","i","c"," ","1","3">>,
      <<"h","e","l","l","o">>,
      <<"!","p","r","o","p","o","s","a","l","s"," ","1"," ">>,
      <<"!","p","r","o","p","o","s","a","l","s","1">>,
      <<" ","!","p","r","o","p","o","s","a","l","s"," ","1">>,
      <<"!","p","r","o","p","o","s","a","l","s"," ","1"," ","t","o","p","i","c">>,
      <<"!","p","r","o","p","o","s","a","l","s","U+200B","1">> }

Commands == { g.text : g \in GrammarCases } \cup UnmatchedTexts

(***************************************************************************)
(* State                                                                   *)
(***************************************************************************)
VARIABLES
    Topic,            \* the Topic object of src/topic.ts
    ProposalStatus,   \* the ProposalStatus object of src/status.ts
    modpc,            \* module evaluation: "topic", "status", then "ready"
    ledger,           \* the ledger's snapshot, newest proposal first
    honours,          \* whether list_proposals honours the request's fields
    inv,              \* the invocations of governanceProvider.get
    calls,            \* the remote calls issued so far, in order
    plugin            \* nnsPlugin.init and process.env.GOVERNANCE_CANISTER_ID

vars == <<Topic, ProposalStatus, modpc, ledger, honours, inv, calls, plugin>>

Inv == {1, 2}

NoRequest == [exclude_topic |-> << >>, include_status |-> << >>, limit |-> 0]

\* an invocation that has not been called yet
Idle ==
    [pc |-> "idle", text |-> << >>,
     limit |-> Undefined, topicFilter |-> Undefined, statusFilter |-> Undefined,
     request |-> NoRequest, response |-> << >>, idx |-> 0,
     id |-> << >>, title |-> Undefined, summary |-> << >>,
     proposals |-> << >>, fetched |-> << >>,
     result |-> << >>, error |-> "none"]

Finished(q) == q.pc \in {"done", "error"}

Active(q) == q.pc \notin {"idle", "done", "error"}

\* init has not run; env is the value of process.env.GOVERNANCE_CANISTER_ID
NotInitialised(env) ==
    [pc |-> "none", config |-> Undefined, env |-> env, envBefore |-> env,
     error |-> "none", warned |-> FALSE]

Init ==
    /\ Topic = TopicLiteral
    /\ ProposalStatus = ProposalStatusLiteral
    /\ modpc = "topic"
    /\ ledger \in Snapshots
    /\ honours \in BOOLEAN
    /\ inv = [i \in Inv |-> Idle]
    /\ calls = << >>
    /\ plugin = NotInitialised(Undefined)

(***************************************************************************)
(* Module evaluation: the reverse mappings of topic.ts and status.ts       *)
(***************************************************************************)
LoadTopic ==
    /\ modpc = "topic"
    /\ Topic' = AddReverseMapping(Topic)
    /\ modpc' = "status"
    /\ UNCHANGED <<ProposalStatus, ledger, honours, inv, calls, plugin>>

LoadStatus ==
    /\ modpc = "status"
    /\ ProposalStatus' = AddReverseMapping(ProposalStatus)
    /\ modpc' = "ready"
    /\ UNCHANGED <<Topic, ledger, honours, inv, calls, plugin>>

(***************************************************************************)
(* fetchProposals: the list request                                        *)
(***************************************************************************)
\* the loop over Object.entries(Topic) that fills exclude_topic
RECURSIVE ExcludeLoop(_, _, _)
ExcludeLoop(entries, j, topicFilter) ==
    IF j > Len(entries) THEN << >>
    ELSE LET topic == parseInt(entries[j].key)
         IN (IF ~isNaN(topic) /\ StrictNotEqual(topic, topicFilter) THEN << topic.v >> ELSE << >>)
            \o ExcludeLoop(entries, j + 1, topicFilter)

\* an exclusion loop that lost its comparison with the filter
ExcludeTopicAll(registry, topicFilter) ==
    IF topicFilter # Undefined THEN ExcludeLoop(registry, 1, Undefined) ELSE << >>

\* an exclusion list filled only for a truthy filter: if (topicFilter) { ... }
ExcludeTopicTruthy(registry, topicFilter) ==
    IF Truthy(topicFilter) THEN ExcludeLoop(registry, 1, topicFilter) ELSE << >>

\* let exclude_topic = []; if (topicFilter != undefined) { ... }
ExcludeTopic(registry, topicFilter) ==
    IF topicFilter # Undefined THEN ExcludeLoop(registry, 1, topicFilter) ELSE << >>

\* a request builder that never fills include_status
IncludeStatusNever(statusFilter) == << >>

\* include_status: statusFilter !== undefined ? Int32Array.from([statusFilter]) : []
\* (the Int32 conversion leaves the values of the commands' digits unchanged)
IncludeStatus(statusFilter) ==
    IF statusFilter # Undefined
    THEN << IF isNaN(statusFilter) THEN 0 ELSE statusFilter.v >>
    ELSE << >>

\* a request built with the two filter arguments taken in the other order
BuildRequestSwapped(registry, limit, statusFilter, topicFilter) ==
    [exclude_topic |-> ExcludeTopic(registry, statusFilter),
     include_status |-> IncludeStatus(topicFilter),
     limit |-> limit.v]

\* a request built with `limit || 10`
BuildRequestClamped(registry, limit, statusFilter, topicFilter) ==
    [exclude_topic |-> ExcludeTopic(registry, topicFilter),
     include_status |-> IncludeStatus(statusFilter),
     limit |-> IF limit.v = 0 THEN DefaultLimit ELSE limit.v]

BuildRequest(registry, limit, statusFilter, topicFilter) ==
    [exclude_topic |-> ExcludeTopic(registry, topicFilter),
     include_status |-> IncludeStatus(statusFilter),
     limit |-> limit.v]

(***************************************************************************)
(* governanceProvider.get                                                  *)
(***************************************************************************)
\* an error path that hands the summaries built so far to the caller
ThrowPartial(q, kind) ==
    [q EXCEPT !.pc = "done", !.error = kind, !.result = << [proposals |-> q.proposals] >>]

\* an error path that sends a failed list call once more
ThrowRetry(q, kind) ==
    IF kind = "TransportFailure" /\ q.pc = "list_wait" /\ q.error = "none"
    THEN [q EXCEPT !.pc = "list_connect", !.error = "retried"]
    ELSE [q EXCEPT !.pc = "error", !.error = kind, !.result = << >>]

\* a rejected promise: the caller gets the error and no result object
Throw(q, kind) == [q EXCEPT !.pc = "error", !.error = kind, !.result = << >>]

\* a return that asks the ledger for one more page when fewer summaries
\* than the limit survived the filters
ReturnPaginate(q) ==
    IF Len(q.proposals) < q.limit.v /\ q.error = "none"
    THEN [q EXCEPT !.pc = "list_connect", !.error = "paged"]
    ELSE [q EXCEPT !.pc = "done", !.result = << [proposals |-> q.proposals] >>]

\* return { text: '', values: {}, data: { proposals } }
Return(q) == [q EXCEPT !.pc = "done", !.result = << [proposals |-> q.proposals] >>]

\* a proposals array kept at module level, never emptied between calls
SharedProposals ==
    IF \E j \in Inv : Finished(inv[j])
    THEN inv[CHOOSE j \in Inv : Finished(inv[j]) /\ \A k \in Inv : Finished(inv[k]) => k <= j].proposals
    ELSE << >>

\* const proposals = []
NewProposals == << >>

\* p.proposal[0].summary || ''
SummaryOrEmpty(sum) == IF Truthy(Str(sum)) THEN sum ELSE << >>

\* p.proposal[0].title[0]
TitleOf(ttl) == IF ttl = << >> THEN Undefined ELSE Str(ttl[1])

\* the loop from its head to the await of fetchProposalInfo, or to the return
LoopHead(q) ==
    IF q.idx > Len(q.response) THEN Return(q)
    ELSE LET p == q.response[q.idx]
         IN IF p.id = << >> \/ p.proposal = << >>
            THEN Throw(q, "TypeError")
            ELSE [q EXCEPT !.pc = "detail_connect",
                           !.id = toString(p.id[1].id),
                           !.title = TitleOf(p.proposal[1].title),
                           !.summary = SummaryOrEmpty(p.proposal[1].summary)]

\* a filter that drops a proposal only when it fails both filters
SkippedUnion(topicFilter, statusFilter, topic, status) ==
    /\ topicFilter # Undefined \/ statusFilter # Undefined
    /\ topicFilter # Undefined => StrictNotEqual(parseInt(topic), topicFilter)
    /\ statusFilter # Undefined => StrictNotEqual(parseInt(status), statusFilter)

\* a filter that also drops every proposal when one of the filters is unset
SkippedUnset(topicFilter, statusFilter, topic, status) ==
    \/ topicFilter = Undefined \/ StrictNotEqual(parseInt(topic), topicFilter)
    \/ statusFilter = Undefined \/ StrictNotEqual(parseInt(status), statusFilter)

\* a filter that reads topicFilter and statusFilter from module-level
\* variables, which another invocation in flight has overwritten
SkippedShared(topicFilter, statusFilter, topic, status) ==
    LET others == { j \in Inv : /\ Active(inv[j])
                                /\ \/ inv[j].topicFilter # topicFilter
                                   \/ inv[j].statusFilter # statusFilter }
        tf == IF others = {} THEN topicFilter ELSE inv[CHOOSE j \in others : TRUE].topicFilter
        sf == IF others = {} THEN statusFilter ELSE inv[CHOOSE j \in others : TRUE].statusFilter
    IN \/ tf # Undefined /\ StrictNotEqual(parseInt(topic), tf)
       \/ sf # Undefined /\ StrictNotEqual(parseInt(status), sf)

\* if (topicFilter !== undefined && parseInt(topic) !== topicFilter) continue;
\* if (statusFilter !== undefined && parseInt(status) !== statusFilter) continue;
Skipped(topicFilter, statusFilter, topic, status) ==
    \/ topicFilter # Undefined /\ StrictNotEqual(parseInt(topic), topicFilter)
    \/ statusFilter # Undefined /\ StrictNotEqual(parseInt(status), statusFilter)

\* a projection that resolves the code to its registry name
CodeFieldName(code) ==
    LET name == GetProperty(Topic, toString(code))
    IN IF name.t = "string" THEN name.s ELSE << >>

\* pInfo.topic.toString() and pInfo.status.toString()
CodeField(code) == toString(code)

\* a push that adds one entry per text line, as the content list once did
PushLines(proposals, summary) == proposals \o << summary, summary >>

\* an unshift in place of the push
PushFront(proposals, summary) == << summary >> \o proposals

\* proposals.push(summary)
Push(proposals, summary) == Append(proposals, summary)

\* a projection that also turns the timestamp into its decimal string
SummaryStringTimestamp(id, title, summary, topic, status, ts) ==
    [id |-> Str(id), title |-> title, summary |-> Str(summary),
     topic |-> Str(topic), status |-> Str(status), timestamp |-> Str(toString(ts))]

\* the object pushed onto proposals
Summary(id, title, summary, topic, status, ts) ==
    [id |-> Str(id), title |-> title, summary |-> Str(summary),
     topic |-> Str(topic), status |-> Str(status), timestamp |-> BigInt(ts)]

\* the loop body after fetchProposalInfo has returned pInfoResult
LoopBody(q, pInfoResult) ==
    IF pInfoResult = << >>
    THEN Throw([q EXCEPT !.fetched = Append(@, pInfoResult)], "TypeError")
    ELSE LET pInfo == pInfoResult[1]
             topic == CodeField(pInfo.topic)
             status == CodeField(pInfo.status)
             kept == IF Skipped(q.topicFilter, q.statusFilter, topic, status)
                     THEN q.proposals
                     ELSE Push(q.proposals,
                               Summary(q.id, q.title, q.summary, topic, status,
                                       pInfo.proposal_timestamp_seconds))
         IN LoopHead([q EXCEPT !.fetched = Append(@, pInfoResult),
                               !.proposals = kept,
                               !.idx = @ + 1])

\* get(_runtime, message, _state) up to the await in fetchProposals
Get(i, txt) ==
    /\ modpc = "ready"
    /\ inv[i].pc = "idle"
    /\ LET m == RegexMatch(txt)
       IN inv' = [inv EXCEPT ![i] = [@ EXCEPT !.pc = "list_connect",
                                               !.text = txt,
                                               !.limit = ParseLimit(m),
                                               !.topicFilter = ParseTopicFilter(m),
                                               !.statusFilter = ParseStatusFilter(m)]]
    /\ UNCHANGED <<Topic, ProposalStatus, modpc, ledger, honours, calls, plugin>>

\* a request builder that writes the topic filter into the Topic object
ConnectListRegistering(i) ==
    /\ inv[i].pc = "list_connect"
    /\ LET request == BuildRequest(Topic, inv[i].limit, inv[i].statusFilter, inv[i].topicFilter)
       IN /\ inv' = [inv EXCEPT ![i] = [@ EXCEPT !.pc = "list_wait", !.request = request]]
          /\ calls' = Append(calls, [inv |-> i, op |-> "list_proposals", id |-> 0,
                                     request |-> request])
    /\ Topic' = IF inv[i].topicFilter # Undefined
                THEN SetProperty(Topic, toString(inv[i].topicFilter.v), Str(<< >>))
                ELSE Topic
    /\ UNCHANGED <<ProposalStatus, modpc, ledger, honours, plugin>>

\* createGovernanceActor resolves in fetchProposals: the request is built and sent
ConnectList(i) ==
    /\ inv[i].pc = "list_connect"
    /\ LET request == BuildRequest(Topic, inv[i].limit, inv[i].statusFilter, inv[i].topicFilter)
       IN /\ inv' = [inv EXCEPT ![i] = [@ EXCEPT !.pc = "list_wait", !.request = request]]
          /\ calls' = Append(calls, [inv |-> i, op |-> "list_proposals", id |-> 0,
                                     request |-> request])
    /\ UNCHANGED <<Topic, ProposalStatus, modpc, ledger, honours, plugin>>

\* list_proposals resolves
ListReturn(i, response) ==
    /\ inv[i].pc = "list_wait"
    /\ inv' = [inv EXCEPT ![i] = LoopHead([@ EXCEPT !.response = response,
                                                     !.proposals = NewProposals,
                                                     !.idx = 1])]
    /\ UNCHANGED <<Topic, ProposalStatus, modpc, ledger, honours, calls, plugin>>

\* a detail fetch fanned out: the calls of all remaining handles are sent at once
ConnectDetailAll(i) ==
    /\ inv[i].pc = "detail_connect"
    /\ inv' = [inv EXCEPT ![i] = [@ EXCEPT !.pc = "detail_wait"]]
    /\ calls' = calls \o [k \in 1..(Len(inv[i].response) - inv[i].idx + 1) |->
                              [inv |-> i, op |-> "get_proposal_info",
                               id |-> IdOf(inv[i].response[inv[i].idx + k - 1]),
                               request |-> NoRequest]]
    /\ UNCHANGED <<Topic, ProposalStatus, modpc, ledger, honours, plugin>>

\* createGovernanceActor resolves in fetchProposalInfo: the detail call is sent
ConnectDetail(i) ==
    /\ inv[i].pc = "detail_connect"
    /\ inv' = [inv EXCEPT ![i] = [@ EXCEPT !.pc = "detail_wait"]]
    /\ calls' = Append(calls, [inv |-> i, op |-> "get_proposal_info",
                               id |-> IdOf(inv[i].response[inv[i].idx]),
                               request |-> NoRequest])
    /\ UNCHANGED <<Topic, ProposalStatus, modpc, ledger, honours, plugin>>

\* get_proposal_info resolves
DetailReturn(i, pInfoResult) ==
    /\ inv[i].pc = "detail_wait"
    /\ inv' = [inv EXCEPT ![i] = LoopBody(@, pInfoResult)]
    /\ UNCHANGED <<Topic, ProposalStatus, modpc, ledger, honours, calls, plugin>>

\* an awaited remote operation rejects (connection, list call or detail call)
TransportFailure(i) ==
    /\ inv[i].pc \in {"list_connect", "list_wait", "detail_connect", "detail_wait"}
    /\ inv' = [inv EXCEPT ![i] = Throw(@, "TransportFailure")]
    /\ UNCHANGED <<Topic, ProposalStatus, modpc, ledger, honours, calls, plugin>>

Step(i) ==
    \/ TransportFailure(i)
    \/ ConnectList(i)
    \/ \E response \in ListResponses(ledger, honours, inv[i].request) : ListReturn(i, response)
    \/ ConnectDetail(i)
    \/ /\ inv[i].pc = "detail_wait"
       /\ \E r \in DetailResponses(ledger, IdOf(inv[i].response[inv[i].idx])) : DetailReturn(i, r)

\* the host calls get for one message
Next ==
    \/ LoadTopic
    \/ LoadStatus
    \/ \E txt \in Commands : Get(1, txt)
    \/ Step(1)

Spec == Init /\ [][Next]_vars

\* every awaited remote operation (connection, list call, detail call)
\* eventually resolves or rejects: a query that is waiting takes its next step
Fairness == WF_vars(Step(1))

SpecLive == Spec /\ Fairness

(***************************************************************************)
(* Several queries: the host calls get for a second message, after the     *)
(* first call has returned or thrown or while it is suspended at one of    *)
(* its awaits.                                                             *)
(***************************************************************************)
SeqCommands ==
    { LitProposals,
      Command(LitProposals, <<1>>, <<13>>, << >>),
      <<"!","p","r","o","p","o","s","a","l","s","\f","2","U+00A0","s","t","a","t","u","s","U+000B","U+2028","4">>,
      <<"h","e","l","l","o">> }

SeqSnapshots ==
    { s \in Snapshots : \A k \in 1..Len(s) : IdOf(s[k]) \in {12, 11} }

InitSeq ==
    /\ Init
    /\ ledger \in SeqSnapshots

NextConc ==
    \/ LoadTopic
    \/ LoadStatus
    \/ \E i \in Inv : \E txt \in SeqCommands : Get(i, txt)
    \/ \E i \in Inv : Step(i)

SpecConc == InitSeq /\ [][NextConc]_vars

(***************************************************************************)
(* nnsPlugin.init and configSchema                                         *)
(***************************************************************************)
\* the values of GOVERNANCE_CANISTER_ID a configuration may carry
ConfigValues == { Undefined, Str(<< >>), Str(<<"r","r","k","a","h">>), Num(5) }

EnvValues == { Undefined, Str(<<"o","l","d">>) }

\* a schema without .optional()
ValidateConfigRequired(value) ==
    IF value.t = "string" /\ Len(value.s) >= 1
    THEN [ok |-> TRUE, value |-> value, warned |-> FALSE]
    ELSE [ok |-> FALSE, value |-> Undefined, warned |-> FALSE]

\* z.string().min(1, ...).optional().transform(val => { if (!val) warn; return val })
ValidateConfig(value) ==
    IF value = Undefined
    THEN [ok |-> TRUE, value |-> Undefined, warned |-> TRUE]
    ELSE IF value.t = "string" /\ Len(value.s) >= 1
    THEN [ok |-> TRUE, value |-> value, warned |-> ~Truthy(value)]
    ELSE [ok |-> FALSE, value |-> Undefined, warned |-> FALSE]

\* whether the loop after the await assigns process.env.GOVERNANCE_CANISTER_ID:
\* the configuration was accepted and `if (value)` holds
WritesEnv(value) == ValidateConfig(value).ok /\ Truthy(ValidateConfig(value).value)

\* async init(config) is called: it runs to the await of
\* configSchema.parseAsync and returns its pending promise
PluginInit(value) ==
    /\ modpc = "ready"
    /\ plugin.pc = "none"
    /\ plugin' = [plugin EXCEPT !.pc = "parsing", !.config = value]
    /\ UNCHANGED <<Topic, ProposalStatus, modpc, ledger, honours, inv, calls>>

\* the transform of the schema runs, in a continuation of parseAsync, on a
\* value the inner schema accepted, and logs its warning for a falsy one
PluginTransform ==
    /\ plugin.pc = "parsing"
    /\ ValidateConfig(plugin.config).warned
    /\ ~plugin.warned
    /\ plugin' = [plugin EXCEPT !.warned = TRUE]
    /\ UNCHANGED <<Topic, ProposalStatus, modpc, ledger, honours, inv, calls>>

\* init resumes after the await with an accepted configuration and assigns
\* the environment variable; its promise has not settled yet
PluginResume ==
    /\ plugin.pc = "parsing"
    /\ WritesEnv(plugin.config)
    /\ plugin' = [plugin EXCEPT !.pc = "written", !.env = ValidateConfig(plugin.config).value]
    /\ UNCHANGED <<Topic, ProposalStatus, modpc, ledger, honours, inv, calls>>

\* the promise of init settles: fulfilled after the loop (which assigned
\* nothing when the value is absent), or rejected by the throw of the catch
PluginSettle ==
    /\ \/ plugin.pc = "written"
       \/ /\ plugin.pc = "parsing"
          /\ ~WritesEnv(plugin.config)
          /\ plugin.warned = ValidateConfig(plugin.config).warned
    /\ plugin' = IF ValidateConfig(plugin.config).ok
                 THEN [plugin EXCEPT !.pc = "done"]
                 ELSE [plugin EXCEPT !.pc = "error", !.error = "Invalid plugin configuration"]
    /\ UNCHANGED <<Topic, ProposalStatus, modpc, ledger, honours, inv, calls>>

InitPlugin ==
    /\ Topic = TopicLiteral
    /\ ProposalStatus = ProposalStatusLiteral
    /\ modpc = "topic"
    /\ ledger \in Snapshots
    /\ honours \in BOOLEAN
    /\ inv = [i \in Inv |-> Idle]
    /\ calls = << >>
    /\ \E env \in EnvValues : plugin = NotInitialised(env)

\* the host loads the module and initialises the plugin
NextPlugin ==
    \/ LoadTopic
    \/ LoadStatus
    \/ \E value \in ConfigValues : PluginInit(value)
    \/ PluginTransform
    \/ PluginResume
    \/ PluginSettle

SpecPlugin == InitPlugin /\ [][NextPlugin]_vars

(***************************************************************************)
(* Properties                                                              *)
(***************************************************************************)
Started(q) == q.pc # "idle"

ResultOf(q) == q.result[1].proposals

\* the ids of the handles of a list response, as the decimal strings
HandleIds(response) == [k \in 1..Len(response) |-> toString(IdOf(response[k]))]

SummaryIds(proposals) == [k \in 1..Len(proposals) |-> proposals[k].id.s]

\* C1: every summary built by a query satisfies all the filters the command
\* carries at once: its topic code is the topic filter when there is one and
\* its status code is the status filter when there is one, whatever the
\* ledger returned.
C1_AllFiltersHold ==
    \A i \in Inv : \A k \in 1..Len(inv[i].proposals) :
        LET q == inv[i]
            x == q.proposals[k]
        IN /\ q.topicFilter # Undefined => parseInt(x.topic.s) = q.topicFilter
           /\ q.statusFilter # Undefined => parseInt(x.status.s) = q.statusFilter

\* a query with both filters returned summaries while the ledger, ignoring
\* the request's fields, had listed a proposal of another topic or status
C1_Witness ==
    \E i \in Inv :
        LET q == inv[i]
        IN /\ q.pc = "done" /\ ~honours
           /\ q.topicFilter = Num(13) /\ q.statusFilter = Num(4)
           /\ Len(ResultOf(q)) >= 1
           /\ \E k \in 1..Len(q.response) : q.response[k].topic = 17
           /\ \E k \in 1..Len(q.response) : q.response[k].topic = 13 /\ q.response[k].status = 1

OptNum(f) == IF f = << >> THEN Undefined ELSE Num(f[1])

\* C2: for a command of the grammar the parsed limit, topic filter and
\* status filter are the numbers written in the command; a missing limit is
\* 10 and a missing topic or status is an unset filter.
C2_ParsedFields ==
    \A i \in Inv : \A g \in GrammarCases :
        (Started(inv[i]) /\ inv[i].text = g.text) =>
            /\ inv[i].limit = (IF g.limit = << >> THEN Num(10) ELSE Num(g.limit[1]))
            /\ inv[i].topicFilter = OptNum(g.topic)
            /\ inv[i].statusFilter = OptNum(g.status)

\* a command with upper-case keywords, a tab and a leading zero was parsed
C2_Witness ==
    \E i \in Inv : \E g \in VariantCases :
        /\ Started(inv[i]) /\ inv[i].text = g.text
        /\ inv[i].limit = Num(2) /\ inv[i].topicFilter = Num(13)

\* C3: a query returns at most one summary per handle of the list response,
\* each for the id of one of those handles, hence at most `limit` summaries
\* when the ledger returned at most `limit` handles; `!proposals` alone
\* sends limit 10.
C3_AtMostLimit ==
    \A i \in Inv :
        LET q == inv[i]
        IN /\ Len(q.proposals) <= Len(q.response)
           /\ \A k \in 1..Len(q.proposals) : q.proposals[k].id.s \in Range(HandleIds(q.response))
           /\ (q.pc = "done" /\ Len(q.response) <= q.request.limit)
                  => Len(ResultOf(q)) <= q.request.limit
           /\ \A c \in 1..Len(calls) :
                 (calls[c].inv = i /\ calls[c].op = "list_proposals" /\ q.text = LitProposals)
                     => calls[c].request.limit = 10

\* a query with limit 1 returned one summary from a ledger holding more
C3_Witness ==
    \E i \in Inv :
        /\ inv[i].pc = "done" /\ inv[i].request.limit = 1 /\ honours
        /\ Len(ledger) >= 2
        /\ Len(ResultOf(inv[i])) = 1

\* C4: a status-only query with limit >= 1, against a ledger that honours
\* include_status and holds a proposal of that status, returns (when every
\* detail fetch returned its record) a non-empty result whose summaries all
\* have that status code.
C4_StatusOnlyNonEmpty ==
    \A i \in Inv :
        LET q == inv[i]
        IN (/\ q.pc = "done" /\ honours
            /\ q.topicFilter = Undefined /\ q.statusFilter # Undefined
            /\ q.limit.v >= 1
            /\ \E k \in 1..Len(ledger) : Num(ledger[k].status) = q.statusFilter
            /\ \A k \in 1..Len(q.fetched) : q.fetched[k] # << >>)
           => /\ Len(ResultOf(q)) >= 1
              /\ \A k \in 1..Len(ResultOf(q)) : parseInt(ResultOf(q)[k].status.s) = q.statusFilter

\* `!proposals 2 status 1` returned the open proposal of a ledger of three
\* whose newest proposal is not open
C4_Witness ==
    \E i \in Inv :
        LET q == inv[i]
        IN /\ q.pc = "done" /\ honours
           /\ q.topicFilter = Undefined /\ q.statusFilter = Num(1) /\ q.limit = Num(2)
           /\ Len(ledger) = 3 /\ ledger[1].status = 4
           /\ Len(ResultOf(q)) = 1

\* C5: the topic and status fields of every summary are non-empty strings
\* that parse back, as base-10 integers, to the topic and status codes of
\* the detail record fetched for the summary's id; the summary field is a
\* string, the empty one when the handle has no summary text.
C5_CodesParseBack ==
    \A i \in Inv : \A k \in 1..Len(inv[i].proposals) :
        LET q == inv[i]
            x == q.proposals[k]
        IN /\ x.topic.t = "string" /\ x.topic.s # << >>
           /\ x.status.t = "string" /\ x.status.s # << >>
           /\ \E j \in 1..Len(q.fetched) :
                 /\ q.fetched[j] # << >>
                 /\ toString(IdOf(q.fetched[j][1])) = x.id.s
                 /\ parseInt(x.topic.s) = Num(q.fetched[j][1].topic)
                 /\ parseInt(x.status.s) = Num(q.fetched[j][1].status)
           /\ x.summary.t = "string"
           /\ \A j \in 1..Len(q.response) :
                 (toString(IdOf(q.response[j])) = x.id.s
                  /\ q.response[j].proposal[1].summary = << >>) => x.summary.s = << >>

\* a query returned a summary of topic 17 with an empty summary text and one
\* of topic 13 with a summary text
C5_Witness ==
    \E i \in Inv :
        /\ inv[i].pc = "done"
        /\ \E k \in 1..Len(ResultOf(inv[i])) :
              /\ ResultOf(inv[i])[k].topic.s = <<"1","7">>
              /\ ResultOf(inv[i])[k].summary.s = << >>
        /\ \E k \in 1..Len(ResultOf(inv[i])) :
              /\ ResultOf(inv[i])[k].topic.s = <<"1","3">>
              /\ ResultOf(inv[i])[k].summary.s # << >>

\* C6: two queries with the same command text that received the same
\* responses from the ledger end the same way and return the same summaries
\* in the same order; nothing an earlier query left behind changes a later
\* one.
C6_Idempotent ==
    \A i \in Inv : \A j \in Inv :
        (/\ Finished(inv[i]) /\ Finished(inv[j])
         /\ inv[i].text = inv[j].text
         /\ inv[i].response = inv[j].response
         /\ inv[i].fetched = inv[j].fetched
         /\ inv[i].error = inv[j].error)
        => /\ inv[i].pc = inv[j].pc
           /\ inv[i].result = inv[j].result

\* the same filtered command was run twice in a row against the same ledger,
\* the second run sending its calls after those of the first, and each run
\* returned a summary
C6_Witness ==
    /\ inv[1].pc = "done" /\ inv[2].pc = "done"
    /\ \A c \in 1..Len(calls) : \A d \in 1..Len(calls) :
          (calls[c].inv = 1 /\ calls[d].inv = 2) => c < d
    /\ inv[1].text = inv[2].text
    /\ inv[1].topicFilter = Num(13)
    /\ inv[1].response = inv[2].response /\ inv[1].fetched = inv[2].fetched
    /\ Len(ResultOf(inv[1])) = 1 /\ Len(ResultOf(inv[2])) = 1

\* the codes the registries register
TopicCodes == (0..10) \cup (12..18)

StatusCodes == 0..5

RoundTrips(registry, code) ==
    LET name == GetProperty(registry, toString(code))
    IN /\ name.t = "string"
       /\ GetProperty(registry, name.s) = Num(code)

\* C7: once the reverse mappings are built, resolving a registered code of
\* Topic (0..10, 12..18) or ProposalStatus (0..5) to its name and the name
\* back to a code gives the original code; code 11 is not registered.
C7_EnumRoundTrip ==
    modpc = "ready" =>
        /\ \A code \in TopicCodes : RoundTrips(Topic, code)
        /\ \A code \in StatusCodes : RoundTrips(ProposalStatus, code)
        /\ GetProperty(Topic, toString(11)) = Undefined

\* the reverse mappings are built: 13 resolves to a name in Topic and 4 in
\* ProposalStatus, and both objects hold an entry per code and per name
C7_Witness ==
    /\ modpc = "ready"
    /\ GetProperty(Topic, <<"1","3">>).t = "string"
    /\ GetProperty(ProposalStatus, <<"4">>).t = "string"
    /\ Len(Topic) = 2 * Cardinality(TopicCodes)
    /\ Len(ProposalStatus) = 2 * Cardinality(StatusCodes)

\* a is a subsequence of b
RECURSIVE IsSubsequence(_, _)
IsSubsequence(a, b) ==
    IF a = << >> THEN TRUE
    ELSE IF b = << >> THEN FALSE
    ELSE IF Head(a) = Head(b) THEN IsSubsequence(Tail(a), Tail(b))
    ELSE IsSubsequence(a, Tail(b))

\* C8: the summaries of a query are, by id, a subsequence of the list
\* response: in the order of the response, at most one per handle.
C8_ListOrderKept ==
    \A i \in Inv : IsSubsequence(SummaryIds(inv[i].proposals), HandleIds(inv[i].response))

\* a query returned two summaries, fewer than the handles listed, from a
\* list response that was not in the ledger's own order
C8_Witness ==
    \E i \in Inv :
        LET q == inv[i]
        IN /\ q.pc = "done"
           /\ Len(ResultOf(q)) = 2 /\ Len(q.response) = 3
           /\ IdOf(q.response[1]) < IdOf(q.response[3])
           /\ ResultOf(q)[1].id.s = toString(IdOf(q.response[1]))
           /\ ResultOf(q)[2].id.s = toString(IdOf(q.response[3]))

\* C9: a query in which the list call or a detail call failed with a
\* transport error ends in an error and delivers no result object, not even
\* the summaries it had built for earlier handles.
C9_NoPartialResult ==
    \A i \in Inv :
        /\ inv[i].error = "TransportFailure" => (inv[i].pc = "error" /\ inv[i].result = << >>)
        /\ inv[i].pc = "error" => inv[i].result = << >>
        /\ inv[i].result # << >> => (inv[i].pc = "done" /\ inv[i].error = "none")

\* a detail call failed after the query had built a summary
C9_Witness ==
    \E i \in Inv :
        /\ inv[i].pc = "error" /\ inv[i].error = "TransportFailure"
        /\ Len(inv[i].proposals) >= 1
        /\ Len(inv[i].fetched) < Len(inv[i].response)

\* C10: when get_proposal_info returns zero records for a handle of the list
\* response, the query skips the handle and goes on; it does not abort.
C10_EmptyDetailSkipped ==
    \A i \in Inv :
        (\E k \in 1..Len(inv[i].fetched) : inv[i].fetched[k] = << >>)
            => inv[i].error # "TypeError"

\* the positions in calls of the list calls
ListCalls == { c \in 1..Len(calls) : calls[c].op = "list_proposals" }

\* the command of the invocation that issued call c
CallText(c) == inv[calls[c].inv].text

\* C11: for a text the grammar does not match, the engine takes no action:
\* no list call and no detail call is issued for that message.
C11_NoCallWhenUnmatched ==
    \A c \in 1..Len(calls) : CallText(c) \notin UnmatchedTexts

\* the value is neither absent nor a string of at least one character
FailsSchema(value) == value # Undefined /\ ~(value.t = "string" /\ Len(value.s) >= 1)

\* C12: init with no GOVERNANCE_CANISTER_ID in the configuration never
\* throws and leaves the environment variable as it was, while it runs and
\* once it has completed, and has logged a warning by then; init throws
\* 'Invalid plugin configuration' only for a value the schema rejects, and
\* assigns the environment variable only for a value the schema accepts.
C12_AbsentIdIsNotFatal ==
    plugin.pc # "none" =>
        /\ plugin.config = Undefined =>
              /\ plugin.pc \in {"parsing", "done"}
              /\ plugin.env = plugin.envBefore
              /\ plugin.pc = "done" => plugin.warned
        /\ plugin.pc = "error" =>
              (plugin.error = "Invalid plugin configuration" /\ FailsSchema(plugin.config))
        /\ plugin.pc # "error" => plugin.error = "none"
        /\ plugin.pc \in {"written", "done"} => ~FailsSchema(plugin.config)
        /\ plugin.env # plugin.envBefore => ~FailsSchema(plugin.config)

\* init completed for a configuration without the identifier, and the
\* environment variable is still unset
C12_Witness ==
    /\ plugin.pc = "done"
    /\ plugin.config = Undefined
    /\ plugin.env = Undefined
    /\ plugin.warned

\* C13: the exclude_topic list of a list request holds, each once, the
\* registered topic codes other than the topic filter of the command (all of
\* them when the filter is not a registered code) and is empty when the
\* command has no topic filter.
C13_ExcludeAllOtherTopics ==
    \A c \in ListCalls : \A g \in GrammarCases :
        g.text = CallText(c) =>
            LET ex == calls[c].request.exclude_topic
            IN IF g.topic = << >> THEN ex = << >>
               ELSE /\ Range(ex) = TopicCodes \ {g.topic[1]}
                    /\ Len(ex) = Cardinality(Range(ex))

\* a list call was sent for topic 13: it excludes the 17 other codes, in
\* ascending order from 0 to 18
C13_Witness ==
    \E c \in ListCalls :
        LET ex == calls[c].request.exclude_topic
        IN /\ inv[calls[c].inv].topicFilter = Num(13)
           /\ Len(ex) = 17 /\ ex[1] = 0 /\ ex[17] = 18
           /\ 13 \notin Range(ex)

\* C14: include_status of a list request is the one-element list of the
\* status filter of the command, or empty without one; a status filter adds
\* nothing to exclude_topic and a topic filter nothing to include_status.
C14_IncludeStatusSingle ==
    \A c \in ListCalls : \A g \in GrammarCases :
        g.text = CallText(c) =>
            LET r == calls[c].request
            IN /\ r.include_status = (IF g.status = << >> THEN << >> ELSE << g.status[1] >>)
               /\ g.topic = << >> => r.exclude_topic = << >>
               /\ g.topic # << >> => TopicCodes \ Range(r.exclude_topic) \subseteq {g.topic[1]}

\* a list call was sent for a command with topic 13 and status 4, and it
\* excludes topic 4 and not topic 13
C14_Witness ==
    \E c \in ListCalls :
        /\ inv[calls[c].inv].topicFilter = Num(13)
        /\ calls[c].request.include_status = <<4>>
        /\ 4 \in Range(calls[c].request.exclude_topic)
        /\ 13 \notin Range(calls[c].request.exclude_topic)

\* C15: a text the expression does not match is run as `!proposals` with the
\* defaults: limit 10, no exclude_topic, no include_status, and no filter on
\* the fetched details, whatever digits and keywords the text holds.
C15_UnmatchedRunsDefaults ==
    \A i \in Inv :
        (Started(inv[i]) /\ inv[i].text \in UnmatchedTexts) =>
            /\ inv[i].limit = Num(10)
            /\ inv[i].topicFilter = Undefined /\ inv[i].statusFilter = Undefined
            /\ \A c \in ListCalls :
                  calls[c].inv = i =>
                      calls[c].request = [exclude_topic |-> << >>, include_status |-> << >>,
                                          limit |-> 10]
            /\ Len(inv[i].proposals)
                   = Cardinality({ k \in 1..Len(inv[i].fetched) : inv[i].fetched[k] # << >> })

\* `!proposals 2 status 1 topic 13` returned three summaries, not all of
\* status 1
C15_Witness ==
    \E i \in Inv :
        /\ inv[i].pc = "done"
        /\ inv[i].text = <<"!","p","r","o","p","o","s","a","l","s"," ","2"," ","s","t","a","t","u","s"," ","1"," ","t","o","p","i","c"," ","1","3">>
        /\ Len(ResultOf(inv[i])) = 3
        /\ \E k \in 1..3 : ResultOf(inv[i])[k].status.s # <<"1">>

\* C16: a command with limit 0 sends limit 0 in its list request, with or
\* without filters; the limit is neither clamped nor replaced by 10.
C16_ZeroLimitVerbatim ==
    \A i \in Inv : \A g \in GrammarCases :
        (Started(inv[i]) /\ inv[i].text = g.text /\ g.limit = <<0>>) =>
            /\ inv[i].limit = Num(0)
            /\ \A c \in ListCalls : calls[c].inv = i => calls[c].request.limit = 0

\* a list call with limit 0 was sent for a command with both filters
C16_Witness ==
    \E c \in ListCalls :
        /\ calls[c].request.limit = 0
        /\ calls[c].request.include_status # << >>
        /\ calls[c].request.exclude_topic # << >>

\* the calls of cs that invocation i issued, in order
CallsOf(cs, i) == LET Mine(c) == c.inv = i IN SelectSeq(cs, Mine)

\* the ids of the detail calls among cs, in order
DetailIds(cs) ==
    LET IsDetail(c) == c.op = "get_proposal_info"
        ds == SelectSeq(cs, IsDetail)
    IN [k \in 1..Len(ds) |-> ds[k].id]

\* C17: a query issues one list call, before any detail call, and then one
\* detail call per handle of the list response, in list order, each only
\* after the previous detail call has returned; a query without filters
\* fetches every handle too.
C17_OneCallAtATime ==
    \A i \in Inv :
        LET q == inv[i]
            mine == CallsOf(calls, i)
            ids == DetailIds(mine)
        IN /\ mine # << >> =>
                 /\ mine[1].op = "list_proposals"
                 /\ Len(ids) = Len(mine) - 1
           /\ Len(ids) <= Len(q.response)
           /\ \A k \in 1..Len(ids) : ids[k] = IdOf(q.response[k])
           /\ Len(ids) <= Len(q.fetched) + 1
           /\ q.pc = "detail_connect" => Len(ids) = Len(q.fetched)
           /\ q.pc = "done" => Len(ids) = Len(q.response)

\* `!proposals` returned after a list call and three detail calls
C17_Witness ==
    \E i \in Inv :
        /\ inv[i].pc = "done" /\ inv[i].text = LitProposals
        /\ Len(inv[i].response) = 3
        /\ Len(CallsOf(calls, i)) = 4
        /\ Len(ResultOf(inv[i])) = 3

\* C18: no remote operation is issued twice for the same request, and a
\* query that has failed (or returned) issues no further remote call.
C18_NoRetry ==
    [][ /\ \A c \in (Len(calls) + 1)..Len(calls') : calls'[c] \notin Range(calls)
        /\ \A i \in Inv : Finished(inv[i]) => CallsOf(calls', i) = CallsOf(calls, i) ]_vars

\* a detail call failed after the list call and one detail call had succeeded
C18_Witness ==
    \E i \in Inv :
        /\ inv[i].pc = "error" /\ inv[i].error = "TransportFailure"
        /\ Len(CallsOf(calls, i)) = 3
        /\ Len(inv[i].fetched) = 1
        /\ Len(inv[i].response) = 3

\* C19: once the reverse mappings are built, no step of any query changes
\* an entry of Topic or ProposalStatus.
C19_RegistriesReadOnly ==
    [][ modpc = "ready" => (Topic' = Topic /\ ProposalStatus' = ProposalStatus) ]_vars

\* two queries, the first with a topic filter, have finished
C19_Witness ==
    /\ modpc = "ready"
    /\ Finished(inv[1]) /\ Finished(inv[2])
    /\ inv[1].topicFilter = Num(13)
    /\ Len(inv[1].request.exclude_topic) = 17
    /\ Len(Topic) = 36 /\ Len(ProposalStatus) = 12

\* C20 as stated: the id of every summary is the decimal string of its
\* handle's id and its timestamp is a string.
C20_IdAndTimestampStrings ==
    \A i \in Inv : \A k \in 1..Len(inv[i].proposals) :
        LET x == inv[i].proposals[k]
        IN /\ x.id.t = "string"
           /\ x.id.s \in Range(HandleIds(inv[i].response))
           /\ x.timestamp.t = "string"

\* C20 amended: the id of every summary is the decimal string of its
\* handle's id; the timestamp is the 64-bit integer
\* proposal_timestamp_seconds of the detail record fetched for that id,
\* passed on as it is.
C20_IdStringTimestampBigInt ==
    \A i \in Inv : \A k \in 1..Len(inv[i].proposals) :
        LET q == inv[i]
            x == q.proposals[k]
        IN /\ x.id.t = "string"
           /\ x.id.s \in Range(HandleIds(q.response))
           /\ \E j \in 1..Len(q.fetched) :
                 /\ q.fetched[j] # << >>
                 /\ x.id.s = toString(IdOf(q.fetched[j][1]))
                 /\ x.timestamp = BigInt(q.fetched[j][1].proposal_timestamp_seconds)

\* a query returned the summary of proposal 11 with its timestamp
C20_Witness ==
    \E i \in Inv :
        /\ inv[i].pc = "done"
        /\ \E k \in 1..Len(ResultOf(inv[i])) :
              /\ ResultOf(inv[i])[k].id = Str(<<"1","1">>)
              /\ ResultOf(inv[i])[k].timestamp = BigInt(1700000300)

\* the detail record matches the filters the query has
Matches(q, pInfo) ==
    /\ q.topicFilter # Undefined => Num(pInfo.topic) = q.topicFilter
    /\ q.statusFilter # Undefined => Num(pInfo.status) = q.statusFilter

\* the ids, as decimal strings, of the handles of the list response whose
\* fetched detail matches the filters, in the order of the response
MatchingIds(q) ==
    LET Fits(k) == q.fetched[k] # << >> /\ Matches(q, q.fetched[k][1])
        ks == SelectSeq([k \in 1..Len(q.fetched) |-> k], Fits)
    IN [n \in 1..Len(ks) |-> toString(IdOf(q.response[ks[n]]))]

\* C21: when every remote call has succeeded and every detail fetch has
\* returned a record, the result holds, in the order of the list response,
\* exactly one summary for each handle whose fetched detail matches every
\* filter the command has, and none for the others; without a filter it
\* holds one summary per handle.
C21_FilterExact ==
    \A i \in Inv :
        LET q == inv[i]
        IN (q.pc = "done" /\ \A k \in 1..Len(q.fetched) : q.fetched[k] # << >>)
           => /\ Len(q.fetched) = Len(q.response)
              /\ SummaryIds(ResultOf(q)) = MatchingIds(q)
              /\ (q.topicFilter = Undefined /\ q.statusFilter = Undefined)
                    => SummaryIds(ResultOf(q)) = HandleIds(q.response)

\* a query for topic 13 and status 4 returned the one matching proposal of
\* three listed by a ledger that ignored the request's fields, and the
\* matching handle was not the first of the list
C21_Witness ==
    \E i \in Inv :
        LET q == inv[i]
        IN /\ q.pc = "done" /\ ~honours
           /\ q.topicFilter = Num(13) /\ q.statusFilter = Num(4)
           /\ Len(q.response) = 3 /\ Len(q.fetched) = 3
           /\ IdOf(q.response[1]) # 10
           /\ SummaryIds(ResultOf(q)) = << <<"1","0">> >>

\* the detail record matches the filters written in the command
MatchesCase(g, pInfo) ==
    /\ g.topic # << >> => pInfo.topic = g.topic[1]
    /\ g.status # << >> => pInfo.status = g.status[1]

\* the summaries a query has built are those of the fetched records that
\* match the filters written in its command
FilterAgrees(g, q) ==
    LET Fits(k) == q.fetched[k] # << >> /\ MatchesCase(g, q.fetched[k][1])
        ks == SelectSeq([k \in 1..Len(q.fetched) |-> k], Fits)
    IN SummaryIds(q.proposals) = [n \in 1..Len(ks) |-> toString(IdOf(q.fetched[ks[n]][1]))]

\* C22: a filter written as 0 is a set filter.  For `topic 0` the parsed
\* filter is 0, the list request excludes every registered topic code but 0
\* and every summary has topic code 0; for `status 0` the parsed filter is
\* 0, include_status is [0] and every summary has status code 0.  For every
\* command the parser, the request and the filter on the fetched details
\* treat a filter as set exactly when the command writes it.
C22_ZeroIsPresent ==
    \A i \in Inv : \A g \in GrammarCases :
        LET q == inv[i]
            mine == { c \in ListCalls : calls[c].inv = i }
        IN (Started(q) /\ q.text = g.text) =>
            /\ g.topic = <<0>> =>
                  /\ q.topicFilter = Num(0)
                  /\ \A c \in mine : Range(calls[c].request.exclude_topic) = TopicCodes \ {0}
                  /\ \A k \in 1..Len(q.proposals) : q.proposals[k].topic.s = <<"0">>
            /\ g.status = <<0>> =>
                  /\ q.statusFilter = Num(0)
                  /\ \A c \in mine : calls[c].request.include_status = <<0>>
                  /\ \A k \in 1..Len(q.proposals) : q.proposals[k].status.s = <<"0">>
            /\ (q.topicFilter # Undefined) <=> (g.topic # << >>)
            /\ (q.statusFilter # Undefined) <=> (g.status # << >>)
            /\ \A c \in mine :
                  /\ (calls[c].request.exclude_topic # << >>) <=> (g.topic # << >>)
                  /\ (calls[c].request.include_status # << >>) <=> (g.status # << >>)
            /\ FilterAgrees(g, q)

\* `!proposals 1 topic 0 status 0` returned the one proposal of topic 0 and
\* status 0 out of the three a ledger that ignored the request had listed;
\* its list request excluded the 17 other topics and included status 0
C22_Witness ==
    \E i \in Inv :
        LET q == inv[i]
        IN /\ q.pc = "done" /\ ~honours
           /\ q.topicFilter = Num(0) /\ q.statusFilter = Num(0)
           /\ Len(q.request.exclude_topic) = 17 /\ 0 \notin Range(q.request.exclude_topic)
           /\ q.request.include_status = <<0>>
           /\ Len(q.response) = 3
           /\ Len(ResultOf(q)) = 1
           /\ ResultOf(q)[1].topic.s = <<"0">> /\ ResultOf(q)[1].status.s = <<"0">>

\* the list calls and the detail calls invocation i has issued
ListCallsOf(i) == { c \in ListCalls : calls[c].inv = i }

DetailCallsOf(i) == { c \in 1..Len(calls) : calls[c].inv = i /\ calls[c].op = "get_proposal_info" }

\* C23: when every awaited remote operation eventually resolves or rejects,
\* every query that was started eventually returns a result or throws; it
\* issues at most one list call (exactly one when it returns a result) and
\* at most one detail call per handle of the list response, also when it
\* returns fewer summaries than its limit.
C23_Terminates ==
    /\ \A i \in Inv : Started(inv[i]) ~> Finished(inv[i])
    /\ [](\A i \in Inv :
             /\ Cardinality(ListCallsOf(i)) <= 1
             /\ Cardinality(DetailCallsOf(i)) <= Len(inv[i].response)
             /\ inv[i].pc = "done" => Cardinality(ListCallsOf(i)) = 1)

\* `!proposals 2 topic 13` returned one summary, fewer than its limit, after
\* one list call and three detail calls
C23_Witness ==
    \E i \in Inv :
        LET q == inv[i]
        IN /\ q.pc = "done"
           /\ q.limit = Num(2) /\ q.topicFilter = Num(13)
           /\ Len(ResultOf(q)) = 1
           /\ Len(q.response) = 3
           /\ Cardinality(ListCallsOf(i)) = 1
           /\ Cardinality(DetailCallsOf(i)) = 3

\* the loop of get run to its end over the detail results in fetched
RECURSIVE Feed(_, _, _)
Feed(q, fetched, k) ==
    IF k > Len(fetched) \/ q.pc # "detail_connect" THEN q
    ELSE Feed(LoopBody(q, fetched[k]), fetched, k + 1)

\* get run alone, without suspension, for the text txt, given the list
\* response and the detail results the ledger returns
RunAlone(txt, response, fetched) ==
    LET m == RegexMatch(txt)
        limit == ParseLimit(m)
        topicFilter == ParseTopicFilter(m)
        statusFilter == ParseStatusFilter(m)
        called == [Idle EXCEPT !.text = txt, !.limit = limit,
                               !.topicFilter = topicFilter, !.statusFilter = statusFilter,
                               !.request = BuildRequest(Topic, limit, statusFilter, topicFilter),
                               !.response = response, !.proposals = NewProposals, !.idx = 1]
    IN Feed(LoopHead(called), fetched, 1)

\* the limit and filters of a text, as written in it (none for a text the
\* expression does not match)
FieldsOf(txt) ==
    IF \E g \in GrammarCases : g.text = txt
    THEN CHOOSE g \in GrammarCases : g.text = txt
    ELSE GrammarCase(txt, << >>, << >>, << >>)

\* C24: when two invocations of get are interleaved at their awaits against
\* the same ledger, each issues the list request of its own command, fetches
\* the handles of its own list response, and returns exactly what get run
\* alone returns for its text and the ledger's answers; against a ledger
\* that honours the request its list response is the one it gets alone.
\* Its summaries are those of the fetched records matching its own filters.
C24_NoInterference ==
    \A i \in Inv :
        LET q == inv[i]
            alone == RunAlone(q.text, q.response, q.fetched)
            mine == CallsOf(calls, i)
        IN /\ Started(q) => FilterAgrees(FieldsOf(q.text), q)
           /\ \A c \in 1..Len(mine) :
                 mine[c].op = "list_proposals" => mine[c].request = alone.request
           /\ \A k \in 1..Len(DetailIds(mine)) : DetailIds(mine)[k] = IdOf(q.response[k])
           /\ (honours /\ q.request.limit > 0 /\ q.pc \notin {"idle", "list_connect", "list_wait", "error"})
                 => q.response = Take(LedgerSelect(ledger, alone.request), alone.request.limit)
           /\ Finished(q) /\ q.error # "TransportFailure" =>
                 /\ q.pc = alone.pc
                 /\ q.result = alone.result
                 /\ q.error = alone.error

\* `!proposals 1 topic 13` and `!proposals` ran interleaved, the second one
\* starting its list call between the list call and the detail call of the
\* first, against a ledger holding proposals 12 and 11; the first returned
\* proposal 11 only and the second both
C24_Witness ==
    /\ inv[1].pc = "done" /\ inv[2].pc = "done"
    /\ inv[1].topicFilter = Num(13) /\ inv[1].limit = Num(1)
    /\ inv[2].text = LitProposals
    /\ Len(calls) = 5
    /\ calls[1].inv = 1 /\ calls[2].inv = 2 /\ calls[3].inv = 1 /\ calls[4].inv = 2
    /\ SummaryIds(ResultOf(inv[1])) = << <<"1","1">> >>
    /\ SummaryIds(ResultOf(inv[2])) = << <<"1","2">>, <<"1","1">> >>

====
